---- MODULE Spec2Model ----
(***************************************************************************)
(* Data-type functions of the array API (array_api_stubs/_draft/           *)
(* data_type_functions.py): astype, can_cast, finfo, iinfo, isdtype and    *)
(* result_type, over a dtype registry, kind tables, per-device promotion   *)
(* graphs, limits records and a heap of array objects.                     *)
(***************************************************************************)
EXTENDS Integers, Sequences, FiniteSets, TLC

VARIABLES
    registry,     \* dtype -> [kind, bits, component]
    kindTable,    \* kind name -> set of dtypes of that kind
    graphs,       \* device -> [dtypes, promote, widen]
    limits,       \* dtype -> finfo / iinfo record
    unspecified,  \* the implementation's choice where the result is unspecified
    heap,         \* sequence of array objects; an array's identity is its index
    call,         \* the last call: operation and arguments
    ret           \* its outcome: [status, value]

vars == <<registry, kindTable, graphs, limits, unspecified, heap, call, ret>>

tables == <<registry, kindTable, graphs, limits, unspecified>>

(***************************************************************************)
(* Bounds                                                                  *)
(***************************************************************************)
MaxArrays == 2

MaxArgs == 3

MaxTuple == 2

(***************************************************************************)
(* The dtype registry                                                      *)
(***************************************************************************)
SignedDTypes == {"int8", "int16", "int32", "int64"}

UnsignedDTypes == {"uint8", "uint16", "uint32", "uint64"}

RealFloatingDTypes == {"float32", "float64"}

ComplexFloatingDTypes == {"complex64", "complex128"}

DTypes ==
    {"bool"} \cup SignedDTypes \cup UnsignedDTypes
             \cup RealFloatingDTypes \cup ComplexFloatingDTypes

NoDtype == "none"

BitWidth(d) ==
    CASE d = "bool" -> 8
      [] d \in {"int8", "uint8"} -> 8
      [] d \in {"int16", "uint16"} -> 16
      [] d \in {"int32", "uint32", "float32"} -> 32
      [] d \in {"int64", "uint64", "float64", "complex64"} -> 64
      [] d = "complex128" -> 128

ComponentDType(d) ==
    CASE d = "complex64" -> "float32"
      [] d = "complex128" -> "float64"
      [] OTHER -> NoDtype

PrimitiveKind(d) ==
    CASE d = "bool" -> "bool"
      [] d \in SignedDTypes -> "signed integer"
      [] d \in UnsignedDTypes -> "unsigned integer"
      [] d \in RealFloatingDTypes -> "real floating"
      [] d \in ComplexFloatingDTypes -> "complex floating"

Registry0 ==
    [d \in DTypes |->
        [kind |-> PrimitiveKind(d), bits |-> BitWidth(d),
         component |-> ComponentDType(d)]]

(***************************************************************************)
(* Kind names and the kind tables                                          *)
(***************************************************************************)
KindNames ==
    {"bool", "signed integer", "unsigned integer", "integral",
     "real floating", "complex floating", "numeric"}

KindTable0 ==
    [k \in KindNames |->
        CASE k = "bool" -> {"bool"}
          [] k = "signed integer" -> {"int8", "int16", "int32", "int64"}
          [] k = "unsigned integer" -> {"uint8", "uint16", "uint32", "uint64"}
          [] k = "integral" ->
                {"int8", "int16", "int32", "int64",
                 "uint8", "uint16", "uint32", "uint64"}
          [] k = "real floating" -> {"float32", "float64"}
          [] k = "complex floating" -> {"complex64", "complex128"}
          [] k = "numeric" ->
                {"int8", "int16", "int32", "int64",
                 "uint8", "uint16", "uint32", "uint64",
                 "float32", "float64", "complex64", "complex128"}]

\* A kind specifier: a dtype, a kind name, or a tuple of dtypes and kind names.
KindOfDtype(d) == [tag |-> "dtype", v |-> d]

KindOfName(n) == [tag |-> "name", v |-> n]

KindOfTuple(t) == [tag |-> "tuple", v |-> t]

UnknownKindName == "decimal"

KindAtoms ==
    {KindOfDtype(d) : d \in DTypes}
        \cup {KindOfName(n) : n \in KindNames \cup {UnknownKindName}}

SeqsUpTo(S, n) == UNION {[1..m -> S] : m \in 1..n}

KindSpecs == KindAtoms \cup {KindOfTuple(t) : t \in SeqsUpTo(KindAtoms, MaxTuple)}

KindAtomsOf(kind) ==
    IF kind.tag = "tuple" THEN {kind.v[i] : i \in DOMAIN kind.v} ELSE {kind}

KindRecognized(kind) ==
    \A a \in KindAtomsOf(kind) : a.tag = "name" => a.v \in DOMAIN kindTable

MatchesAtom(dtype, a) ==
    IF a.tag = "dtype" THEN dtype = a.v ELSE dtype \in kindTable[a.v]

\* isdtype with a tuple read as an intersection of its elements.
isdtypeAll(dtype, kind) ==
    IF kind.tag = "tuple"
    THEN \A i \in DOMAIN kind.v : MatchesAtom(dtype, kind.v[i])
    ELSE MatchesAtom(dtype, kind)

isdtype(dtype, kind) ==
    IF kind.tag = "tuple"
    THEN \E i \in DOMAIN kind.v : MatchesAtom(dtype, kind.v[i])
    ELSE MatchesAtom(dtype, kind)

(***************************************************************************)
(* Devices and promotion graphs (type promotion rules of the standard)     *)
(***************************************************************************)
Devices == {"cpu", "dev1"}

DefaultDevice == "cpu"

\* Not every device supports every dtype: dev1 has no 64-bit floating point.
DeviceDTypes(dev) ==
    IF dev = DefaultDevice THEN DTypes ELSE DTypes \ {"float64", "complex128"}

Wider(a, b) == IF BitWidth(a) >= BitWidth(b) THEN a ELSE b

SignedOfBits(n) == CHOOSE d \in SignedDTypes : BitWidth(d) = n

ComplexOfComponent(f) == CHOOSE c \in ComplexFloatingDTypes : ComponentDType(c) = f

MixedSign(s, u) ==
    LET n == IF BitWidth(s) > BitWidth(u) THEN BitWidth(s) ELSE 2 * BitWidth(u)
    IN  IF n > 64 THEN NoDtype ELSE SignedOfBits(n)

\* The promotion tables: the dtype two operands promote to, NoDtype where
\* the tables have no entry (mixed kinds, uint64 with a signed integer).
PromotionTable(a, b) ==
    LET ka == PrimitiveKind(a)
        kb == PrimitiveKind(b)
    IN  CASE a = b -> a
          [] a # b /\ ka = kb -> Wider(a, b)
          [] ka = "signed integer" /\ kb = "unsigned integer" -> MixedSign(a, b)
          [] ka = "unsigned integer" /\ kb = "signed integer" -> MixedSign(b, a)
          [] ka = "real floating" /\ kb = "complex floating" ->
                ComplexOfComponent(Wider(a, ComponentDType(b)))
          [] ka = "complex floating" /\ kb = "real floating" ->
                ComplexOfComponent(Wider(b, ComponentDType(a)))
          [] OTHER -> NoDtype

\* The promotion lattice: an edge a -> b says a promotes to b in one step.
PromotionLattice ==
    {<<"int8", "int16">>, <<"int16", "int32">>, <<"int32", "int64">>,
     <<"uint8", "uint16">>, <<"uint16", "uint32">>, <<"uint32", "uint64">>,
     <<"uint8", "int16">>, <<"uint16", "int32">>, <<"uint32", "int64">>,
     <<"float32", "float64">>, <<"complex64", "complex128">>,
     <<"float32", "complex64">>, <<"float64", "complex128">>}

Graphs0 ==
    [dev \in Devices |->
        [dtypes |-> DeviceDTypes(dev),
         promote |->
            [p \in {q \in DeviceDTypes(dev) \X DeviceDTypes(dev) :
                        PromotionTable(q[1], q[2]) # NoDtype} |->
                PromotionTable(p[1], p[2])],
         widen |->
            {e \in PromotionLattice :
                e[1] \in DeviceDTypes(dev) /\ e[2] \in DeviceDTypes(dev)}]]

\* The graph's entry for a pair, NoDtype when the graph has none.
Promote(dev, a, b) ==
    IF <<a, b>> \in DOMAIN graphs[dev].promote
    THEN graphs[dev].promote[<<a, b>>]
    ELSE NoDtype

RECURSIVE WidenClosure(_, _)
WidenClosure(dev, S) ==
    LET T == S \cup {e[2] : e \in {f \in graphs[dev].widen : f[1] \in S}}
    IN  IF T = S THEN S ELSE WidenClosure(dev, T)

\* The dtypes a promotes to on dev, a itself included.
PromotesTo(dev, a) ==
    IF a \in graphs[dev].dtypes THEN WidenClosure(dev, {a}) ELSE {}

(***************************************************************************)
(* Arrays and arguments                                                    *)
(***************************************************************************)
NoDevice == "None"

ArgDtype(d) == [tag |-> "dtype", v |-> d]

ArgArray(i) == [tag |-> "array", v |-> i]

ArgScalar(t) == [tag |-> "scalar", v |-> t]

ScalarTypes == {"bool", "int", "float", "complex"}

IsScalar(a) == a.tag = "scalar"

\* The dtype of an array or dtype argument.
DtypeOf(a) == IF a.tag = "array" THEN heap[a.v].dtype ELSE a.v

ArrayDevices(args) ==
    {heap[args[i].v].device : i \in {j \in DOMAIN args : args[j].tag = "array"}}

\* The graph a call uses: that of the device its array arguments share,
\* the default graph when no argument is an array.
GraphDevice(args) ==
    IF ArrayDevices(args) = {} THEN DefaultDevice
    ELSE CHOOSE dev \in ArrayDevices(args) : TRUE

(***************************************************************************)
(* result_type                                                             *)
(***************************************************************************)
UnspecifiedChoices == {"left", "right", "float64"}

\* An implementation that returns no dtype for a pair without a graph entry.
UnspecifiedResultNone(a, b) == NoDtype

\* A pair without a graph entry: the returned dtype is unspecified and
\* implementation-dependent; unspecified is this implementation's choice.
UnspecifiedResult(a, b) ==
    CASE unspecified = "left" -> a
      [] unspecified = "right" -> b
      [] OTHER -> unspecified

PromotePair(dev, a, b) ==
    IF Promote(dev, a, b) # NoDtype
    THEN Promote(dev, a, b)
    ELSE UnspecifiedResult(a, b)

DefaultDtype(t) ==
    CASE t = "bool" -> "bool"
      [] t = "int" -> "int64"
      [] t = "float" -> "float64"
      [] t = "complex" -> "complex128"

\* A Python scalar of a kind the dtype can hold leaves the dtype as it is.
ScalarFits(t, d) ==
    CASE t = "bool" -> d = "bool"
      [] t = "int" -> d \in kindTable["numeric"]
      [] t = "float" ->
            d \in kindTable["real floating"] \cup kindTable["complex floating"]
      [] t = "complex" -> d \in kindTable["complex floating"]

PromoteScalar(d, t) ==
    IF ScalarFits(t, d) THEN d ELSE UnspecifiedResult(d, DefaultDtype(t))

\* A reduction that promotes the first dtype with the last one only.
ReduceDtypesLastOnly(dev, acc, ds) ==
    IF ds = <<>> THEN acc ELSE PromotePair(dev, acc, ds[Len(ds)])

RECURSIVE ReduceDtypes(_, _, _)
ReduceDtypes(dev, acc, ds) ==
    IF ds = <<>> THEN acc
    ELSE ReduceDtypes(dev, PromotePair(dev, acc, Head(ds)), Tail(ds))

RECURSIVE ReduceScalars(_, _)
ReduceScalars(acc, ts) ==
    IF ts = <<>> THEN acc
    ELSE ReduceScalars(PromoteScalar(acc, Head(ts)), Tail(ts))

IsArrayOrDtype(a) == ~IsScalar(a)

ArraysAndDtypes(args) == SelectSeq(args, IsArrayOrDtype)

Scalars(args) == SelectSeq(args, IsScalar)

DtypesOf(args) == [i \in DOMAIN args |-> DtypeOf(args[i])]

ScalarTypesOf(args) == [i \in DOMAIN args |-> args[i].v]

Ok(v) == [status |-> "ok", value |-> v]

Fail(condition) == [status |-> condition]

\* result_type that promotes scalars alone from their default dtypes.
result_typeOfScalars(args) ==
    LET ds == DtypesOf(ArraysAndDtypes(args))
        ts == ScalarTypesOf(Scalars(args))
    IN  IF args = <<>> THEN Fail("invalid-argument")
        ELSE IF ds = <<>>
        THEN Ok(ReduceScalars(DefaultDtype(Head(ts)), Tail(ts)))
        ELSE Ok(ReduceScalars(ReduceDtypes(GraphDevice(args), Head(ds), Tail(ds)), ts))

result_type(args) ==
    LET ds == DtypesOf(ArraysAndDtypes(args))
        ts == ScalarTypesOf(Scalars(args))
    IN  IF ds = <<>> THEN Fail("invalid-argument")
        ELSE Ok(ReduceScalars(ReduceDtypes(GraphDevice(args), Head(ds), Tail(ds)), ts))

\* result_type(*args).  Arrays on different devices are left out: the
\* behavior there is unspecified.
ResultTypeCall(args) ==
    /\ Cardinality(ArrayDevices(args)) <= 1
    /\ call' = [op |-> "result_type", args |-> args]
    /\ ret' = result_type(args)
    /\ UNCHANGED <<tables, heap>>

(***************************************************************************)
(* can_cast                                                                *)
(***************************************************************************)
\* can_cast with the direction of the cast reversed.
can_castReversed(from_, to) ==
    DtypeOf(from_) \in PromotesTo(GraphDevice(<<from_>>), to)

can_cast(from_, to) ==
    to \in PromotesTo(GraphDevice(<<from_>>), DtypeOf(from_))

CanCastCall(from_, to) ==
    /\ call' = [op |-> "can_cast", from_ |-> from_, to |-> to]
    /\ ret' = Ok(can_cast(from_, to))
    /\ UNCHANGED <<tables, heap>>

(***************************************************************************)
(* isdtype                                                                 *)
(***************************************************************************)
IsdtypeCall(dtype, kind) ==
    /\ call' = [op |-> "isdtype", dtype |-> dtype, kind |-> kind]
    /\ ret' = IF KindRecognized(kind)
              THEN Ok(isdtype(dtype, kind))
              ELSE Fail("invalid-argument")
    /\ UNCHANGED <<tables, heap>>

(***************************************************************************)
(* Limits records                                                          *)
(***************************************************************************)
\* A floating-point limit (2 - 2^(-frac)) * 2^exp, negated when neg holds.
FloatLimit(neg, frac, exp) == [neg |-> neg, frac |-> frac, exp |-> exp]

\* An integer limit 2^pow - minus, negated when neg holds.
IntLimit(neg, pow, minus) == [neg |-> neg, pow |-> pow, minus |-> minus]

FInfo0(d) ==
    LET frac == IF d = "float32" THEN 23 ELSE 52
        emax == IF d = "float32" THEN 127 ELSE 1023
    IN  [bits |-> BitWidth(d),
         eps |-> FloatLimit(FALSE, 0, 0 - frac),
         max |-> FloatLimit(FALSE, frac, emax),
         min |-> FloatLimit(TRUE, frac, emax),
         smallest_normal |-> FloatLimit(FALSE, 0, 1 - emax),
         dtype |-> d]

IInfo0(d) ==
    IF d \in SignedDTypes
    THEN [bits |-> BitWidth(d),
          max |-> IntLimit(FALSE, BitWidth(d) - 1, 1),
          min |-> IntLimit(TRUE, BitWidth(d) - 1, 0),
          dtype |-> d]
    ELSE [bits |-> BitWidth(d),
          max |-> IntLimit(FALSE, BitWidth(d), 1),
          min |-> IntLimit(FALSE, 0, 1),
          dtype |-> d]

Limits0 ==
    [d \in SignedDTypes \cup UnsignedDTypes \cup RealFloatingDTypes |->
        IF d \in RealFloatingDTypes THEN FInfo0(d) ELSE IInfo0(d)]

(***************************************************************************)
(* finfo, iinfo                                                            *)
(***************************************************************************)
\* finfo that reports the complex dtype it was asked about.
finfoOfInput(type) ==
    LET d == DtypeOf(type)
    IN  CASE registry[d].kind = "real floating" -> Ok(limits[d])
          [] registry[d].kind = "complex floating" ->
                Ok([limits[registry[d].component] EXCEPT !.dtype = d])
          [] OTHER -> Fail("invalid-argument")

finfo(type) ==
    LET d == DtypeOf(type)
    IN  CASE registry[d].kind = "real floating" -> Ok(limits[d])
          [] registry[d].kind = "complex floating" ->
                Ok(limits[registry[d].component])
          [] OTHER -> Fail("invalid-argument")

FinfoCall(type) ==
    /\ call' = [op |-> "finfo", type |-> type]
    /\ ret' = finfo(type)
    /\ UNCHANGED <<tables, heap>>

iinfo(type) ==
    LET d == DtypeOf(type)
    IN  IF registry[d].kind \in {"signed integer", "unsigned integer"}
        THEN Ok(limits[d])
        ELSE Fail("invalid-argument")

IinfoCall(type) ==
    /\ call' = [op |-> "iinfo", type |-> type]
    /\ ret' = iinfo(type)
    /\ UNCHANGED <<tables, heap>>

(***************************************************************************)
(* astype                                                                  *)
(***************************************************************************)
RealValuedKinds == {"signed integer", "unsigned integer", "real floating"}

\* One element cast from a dtype of kind from to a dtype of kind to.  A
\* boolean is TRUE or FALSE, a real number an integer, a complex number a
\* pair <<re, im>>.  The elements are small non-negative integers, which
\* every real-valued dtype represents exactly; NaN and infinity, whose cast
\* to an integral dtype is implementation-dependent, are not among them.
CastValue(v, from, to) ==
    CASE from = "bool" /\ to = "bool" -> v
      [] from = "bool" /\ to \in RealValuedKinds -> IF v THEN 1 ELSE 0
      [] from = "bool" /\ to = "complex floating" -> <<IF v THEN 1 ELSE 0, 0>>
      [] from \in RealValuedKinds /\ to = "bool" -> v # 0
      [] from \in RealValuedKinds /\ to \in RealValuedKinds -> v
      [] from \in RealValuedKinds /\ to = "complex floating" -> <<v, 0>>
      [] from = "complex floating" /\ to = "bool" -> v # <<0, 0>>
      [] from = "complex floating" /\ to = "complex floating" -> v

CastArray(src, dtype, dev) ==
    [dtype |-> dtype,
     device |-> dev,
     data |-> [i \in DOMAIN src.data |->
                CastValue(src.data[i], registry[src.dtype].kind,
                          registry[dtype].kind)]]

\* A cast engine that counts bool among the real-valued dtypes.
CastForbiddenToBool(from, to) ==
    /\ registry[from].kind = "complex floating"
    /\ registry[to].kind \in RealValuedKinds \cup {"bool"}

CastForbidden(from, to) ==
    /\ registry[from].kind = "complex floating"
    /\ registry[to].kind \in RealValuedKinds

\* A cast engine that ignores the device argument.
TargetDeviceOfInput(x, device) == heap[x].device

TargetDevice(x, device) == IF device = NoDevice THEN heap[x].device ELSE device

\* A cast engine that ignores the copy flag.
MatchesInputAnyCopy(x, dtype, copy) == dtype = heap[x].dtype

\* copy is False and the dtype is that of the input array.
MatchesInput(x, dtype, copy) == ~copy /\ dtype = heap[x].dtype

\* The input array itself is the result.
AstypeReturnsInput(x) ==
    /\ ret' = Ok(x)
    /\ heap' = heap

\* A cast in place: the input array itself is overwritten and returned.
AstypeInPlace(x, dtype, dev) ==
    /\ heap' = [heap EXCEPT ![x] = CastArray(heap[x], dtype, dev)]
    /\ ret' = Ok(x)

\* A newly allocated array is the result.
AstypeAllocates(x, dtype, dev) ==
    /\ Len(heap) < MaxArrays
    /\ heap' = Append(heap, CastArray(heap[x], dtype, dev))
    /\ ret' = Ok(Len(heap) + 1)

\* astype(x, dtype, copy=copy, device=device), for a dtype the device of the
\* result supports.  With copy=False and the dtype of x the input array must
\* be returned, and the returned array must be on device: for a device other
\* than that of x both cannot hold, and either outcome is possible.
AstypeCall(x, dtype, copy, device) ==
    LET dev == TargetDevice(x, device)
    IN  /\ dtype \in graphs[dev].dtypes
        /\ call' = [op |-> "astype", x |-> x, dtype |-> dtype,
                    copy |-> copy, device |-> device]
        /\ IF CastForbidden(heap[x].dtype, dtype)
           THEN ret' = Fail("type-incompatibility") /\ heap' = heap
           ELSE IF MatchesInput(x, dtype, copy)
           THEN \/ AstypeReturnsInput(x)
                \/ dev # heap[x].device /\ AstypeAllocates(x, dtype, dev)
           ELSE AstypeAllocates(x, dtype, dev)
        /\ UNCHANGED tables

(***************************************************************************)
(* Initial states                                                          *)
(***************************************************************************)
InitTables ==
    /\ registry = Registry0
    /\ kindTable = KindTable0
    /\ graphs = Graphs0
    /\ limits = Limits0
    /\ unspecified \in UnspecifiedChoices

\* The elements of an initial array: a zero and a non-zero element.
DataOf(kind, seed) ==
    CASE kind = "bool" -> <<FALSE, TRUE>>
      [] kind \in RealValuedKinds -> <<0, seed>>
      [] kind = "complex floating" ->
            IF seed = 1 THEN <<(<<0, 0>>), (<<1, 0>>)>>
            ELSE <<(<<0, 0>>), (<<0, seed>>)>>

\* Arrays exist only with dtypes their device supports.
ArraysWith(seeds) ==
    UNION {{[dtype |-> d, device |-> dev, data |-> DataOf(PrimitiveKind(d), s)] :
                d \in DeviceDTypes(dev), s \in seeds} : dev \in Devices}

InitArrays == ArraysWith({1, 2})

Pending == [status |-> "pending"]

ArgItems == {ArgDtype(d) : d \in DTypes} \cup {ArgArray(1)}

UsesArray(c) ==
    CASE c.op = "result_type" -> \E i \in DOMAIN c.args : c.args[i].tag = "array"
      [] c.op = "can_cast" -> c.from_.tag = "array"
      [] c.op \in {"finfo", "iinfo"} -> c.type.tag = "array"
      [] OTHER -> FALSE

\* The heap a drawn call runs on: one array when the call names one.
InitCall(calls, arrays) ==
    /\ call \in calls
    /\ heap \in IF UsesArray(call) THEN {<<a>> : a \in arrays} ELSE {<<>>}
    /\ ret = Pending

(***************************************************************************)
(* isdtype over every dtype and kind specifier                             *)
(***************************************************************************)
KindCalls ==
    {[op |-> "isdtype", dtype |-> d, kind |-> k] : d \in DTypes, k \in KindSpecs}

InitKind == InitTables /\ unspecified = "left" /\ InitCall(KindCalls, {})

NextKind == call.op = "isdtype" /\ IsdtypeCall(call.dtype, call.kind)

SpecKind == InitKind /\ [][NextKind]_vars

(***************************************************************************)
(* result_type and can_cast over dtypes, scalars and arrays                *)
(***************************************************************************)
MaxMixedArgs == 2

DtypeArgs == {<<>>} \cup SeqsUpTo({ArgDtype(d) : d \in DTypes}, MaxArgs)

MixedArgs ==
    SeqsUpTo(ArgItems \cup {ArgScalar(t) : t \in ScalarTypes}, MaxMixedArgs)

PromoteCalls ==
    {[op |-> "result_type", args |-> a] : a \in DtypeArgs \cup MixedArgs}
        \cup {[op |-> "can_cast", from_ |-> f, to |-> t] :
                f \in ArgItems, t \in DTypes}

PromoteArrays ==
    {a \in ArraysWith({1}) : a.dtype \in {"uint8", "int64", "float32", "complex64"}}

InitPromote == InitTables /\ InitCall(PromoteCalls, PromoteArrays)

NextPromote ==
    \/ call.op = "result_type" /\ ResultTypeCall(call.args)
    \/ call.op = "can_cast" /\ CanCastCall(call.from_, call.to)

SpecPromote == InitPromote /\ [][NextPromote]_vars

(***************************************************************************)
(* finfo and iinfo over every dtype and array                              *)
(***************************************************************************)
LimitsCalls == {[op |-> o, type |-> t] : o \in {"finfo", "iinfo"}, t \in ArgItems}

InitLimits == InitTables /\ unspecified = "left" /\ InitCall(LimitsCalls, InitArrays)

NextLimits ==
    \/ call.op = "finfo" /\ FinfoCall(call.type)
    \/ call.op = "iinfo" /\ IinfoCall(call.type)

SpecLimits == InitLimits /\ [][NextLimits]_vars

(***************************************************************************)
(* astype of one array, called once or again                               *)
(***************************************************************************)
AstypeCalls ==
    {[op |-> "astype", x |-> 1, dtype |-> d, copy |-> c, device |-> dev] :
        d \in DTypes, c \in BOOLEAN, dev \in Devices \cup {NoDevice}}

InitCast ==
    /\ InitTables /\ unspecified = "left"
    /\ call \in AstypeCalls
    /\ heap \in {<<a>> : a \in InitArrays}
    /\ ret = Pending

NextCast ==
    call.op = "astype" /\ AstypeCall(call.x, call.dtype, call.copy, call.device)

SpecCast == InitCast /\ [][NextCast]_vars

(***************************************************************************)
(* Every operation, in any order                                           *)
(***************************************************************************)
SomeDTypes == {"int32", "float32", "complex64"}

SomeItems == {ArgDtype(d) : d \in SomeDTypes} \cup {ArgArray(i) : i \in DOMAIN heap}

Init ==
    /\ InitTables /\ unspecified = "left"
    /\ heap \in {<<a>> : a \in {b \in ArraysWith({1}) :
                                  b.dtype \in {"int32", "complex64"}}}
    /\ call = [op |-> "none"]
    /\ ret = Pending

Next ==
    \/ \E d \in SomeDTypes, n \in KindNames \cup {UnknownKindName} :
            IsdtypeCall(d, KindOfName(n))
    \/ \E a \in {<<>>} \cup {<<i>> : i \in SomeItems}
                       \cup {<<i, ArgDtype(d)>> : i \in SomeItems, d \in SomeDTypes}
                       \cup {<<ArgScalar("float")>>} :
            ResultTypeCall(a)
    \/ \E f \in SomeItems, t \in SomeDTypes : CanCastCall(f, t)
    \/ \E t \in SomeItems : FinfoCall(t)
    \/ \E t \in SomeItems : IinfoCall(t)
    \/ \E x \in DOMAIN heap, d \in SomeDTypes, c \in BOOLEAN,
          dev \in {NoDevice, "dev1"} :
            AstypeCall(x, d, c, dev)

Spec == Init /\ [][Next]_vars

(***************************************************************************)
(* Properties                                                              *)
(***************************************************************************)
Returned == ret.status # "pending"

AllDtypeArgs(args) == \A i \in DOMAIN args : args[i].tag = "dtype"

\* C1: for every ordered pair of dtypes (A, B) with an entry in the default
\* promotion graph, can_cast(A, B) is True exactly when result_type(A, B) is
\* B; and whenever result_type(A, B) is not B, can_cast(A, B) is False.
C1_CanCastIsPromotion ==
    (call.op = "can_cast" /\ Returned /\ call.from_.tag = "dtype") =>
        LET A == call.from_.v
            B == call.to
            rt == result_type(<<ArgDtype(A), ArgDtype(B)>>).value
        IN  /\ ret.status = "ok"
            /\ Promote(DefaultDevice, A, B) # NoDtype => ret.value = (rt = B)
            /\ rt # B => ret.value = FALSE

C1_Witness ==
    /\ call.op = "can_cast" /\ Returned
    /\ call.from_ = ArgDtype("uint8") /\ call.to = "int16"
    /\ ret.value = TRUE

\* Whether every pair of the dtypes has an entry in the default graph.
AllPairsDefined(args) ==
    \A i, j \in DOMAIN args :
        Promote(DefaultDevice, args[i].v, args[j].v) # NoDtype

Orderings(n) == {p \in [1..n -> 1..n] : \A i, j \in 1..n : p[i] = p[j] => i = j}

SubSeqOf(s, m, n) == [i \in 1..(n - m + 1) |-> s[m + i - 1]]

\* The results of every grouping of the pairwise reduction of ds, each pair
\* promoted by result_type.
RECURSIVE Groupings(_)
Groupings(ds) ==
    IF Len(ds) = 1 THEN {ds[1]}
    ELSE UNION {{result_type(<<ArgDtype(a), ArgDtype(b)>>).value :
                    a \in Groupings(SubSeqOf(ds, 1, k)),
                    b \in Groupings(SubSeqOf(ds, k + 1, Len(ds)))} :
                k \in 1..(Len(ds) - 1)}

\* C2: for a non-empty sequence of dtypes whose pairs all have a graph
\* entry, every permutation and every grouping of the pairwise reduction
\* gives the dtype result_type returns.
C2_OrderIndependent ==
    (/\ call.op = "result_type" /\ Returned
     /\ call.args # <<>> /\ AllDtypeArgs(call.args)
     /\ AllPairsDefined(call.args)) =>
        /\ ret.status = "ok"
        /\ \A p \in Orderings(Len(call.args)) :
              Groupings([i \in DOMAIN call.args |-> call.args[p[i]].v])
                  = {ret.value}

C2_Witness ==
    /\ call.op = "result_type" /\ Returned
    /\ call.args = <<ArgDtype("uint8"), ArgDtype("int8"), ArgDtype("uint32")>>
    /\ ret = Ok("int64")

HasRealTarget == registry[call.dtype].kind \in RealValuedKinds

FromComplex == registry[heap[call.x].dtype].kind = "complex floating"

\* C3: astype of a complex floating-point array to a signed integer,
\* unsigned integer or real floating dtype fails with type-incompatibility
\* and allocates nothing, for either copy flag and any device; to bool or
\* to a complex dtype it does not fail.
C3_ComplexToRealFails ==
    (call.op = "astype" /\ Returned /\ FromComplex) =>
        IF HasRealTarget
        THEN ret.status = "type-incompatibility" /\ Len(heap) = 1
        ELSE ret.status = "ok"

C3_Witness ==
    /\ call.op = "astype" /\ Returned
    /\ heap[call.x].dtype = "complex64" /\ call.dtype = "int8"
    /\ ~call.copy /\ call.device = "dev1"
    /\ ret.status = "type-incompatibility"

\* The step returned a newly allocated array of the requested dtype.
ReturnsNew ==
    /\ ret'.status = "ok"
    /\ ret'.value \notin DOMAIN heap
    /\ ret'.value \in DOMAIN heap'
    /\ ret'.value # call'.x
    /\ heap'[ret'.value].dtype = call'.dtype

ReturnsInput == ret' = Ok(call'.x) /\ heap' = heap

SameDtype == call'.dtype = heap[call'.x].dtype

AstypeStep == call'.op = "astype"

\* C4 as stated: with device=None, copy=False returns the input object when
\* the dtype is that of x and a newly allocated array otherwise, and
\* copy=True returns a newly allocated array for every dtype.
C4_AsStated ==
    [][(AstypeStep /\ call'.device = NoDevice) =>
            IF ~call'.copy /\ SameDtype THEN ReturnsInput ELSE ReturnsNew]_vars

\* C4: with device=None, unless the cast is complex floating to a
\* real-valued dtype (which fails and returns no array), copy=False returns
\* the input object when the dtype is that of x and a newly allocated array
\* otherwise, and copy=True returns a newly allocated array, never x.
C4_CopyFlag ==
    [][(AstypeStep /\ call'.device = NoDevice) =>
            IF PrimitiveKind(heap[call'.x].dtype) = "complex floating"
               /\ PrimitiveKind(call'.dtype) \in RealValuedKinds
            THEN ret'.status = "type-incompatibility" /\ heap' = heap
            ELSE IF ~call'.copy /\ SameDtype THEN ReturnsInput
            ELSE ReturnsNew]_vars

C4_Witness ==
    /\ call.op = "astype" /\ call.device = NoDevice /\ call.copy
    /\ call.dtype = heap[call.x].dtype
    /\ ret.status = "ok" /\ ret.value # call.x
    /\ heap[ret.value].dtype = call.dtype

C7_NeedsArrayOrDtype ==
    (call.op = "result_type" /\ Returned) =>
        IF \A i \in DOMAIN call.args : IsScalar(call.args[i])
        THEN ret.status = "invalid-argument"
        ELSE ret.status = "ok"

C7_Witness ==
    /\ call.op = "result_type" /\ Returned
    /\ call.args = <<ArgScalar("float"), ArgScalar("int")>>
    /\ ret.status = "invalid-argument"

Integral == KindOfName("integral")

Numeric == KindOfName("numeric")

IntegralTuple ==
    KindOfTuple(<<KindOfName("signed integer"), KindOfName("unsigned integer")>>)

NumericTuple ==
    KindOfTuple(<<KindOfName("integral"), KindOfName("real floating"),
                  KindOfName("complex floating")>>)

\* C8: isdtype(d, 'integral') equals isdtype of the tuple ('signed integer',
\* 'unsigned integer'), isdtype(d, 'numeric') equals isdtype of the tuple
\* ('integral', 'real floating', 'complex floating'), a tuple matches
\* exactly when one of its elements does, and bool is neither integral nor
\* numeric.
C8_CompoundKinds ==
    (call.op = "isdtype" /\ ret.status = "ok") =>
        LET d == call.dtype
        IN  /\ call.kind = Integral => ret.value = isdtype(d, IntegralTuple)
            /\ call.kind = Numeric => ret.value = isdtype(d, NumericTuple)
            /\ call.kind.tag = "tuple" =>
                    ret.value = (\E i \in DOMAIN call.kind.v :
                                    isdtype(d, call.kind.v[i]))
            /\ (d = "bool" /\ call.kind \in {Integral, Numeric}) =>
                    ret.value = FALSE

C8_Witness ==
    /\ call.op = "isdtype" /\ call.dtype = "uint16" /\ call.kind = Integral
    /\ ret = Ok(TRUE)

\* C9: finfo of a complex floating dtype c with component r returns the
\* record of finfo(r): its dtype field is r, a real floating dtype and not
\* c, and its other fields are those of r; finfo of a bool or integer dtype
\* fails with invalid-argument.
C9_FinfoComponent ==
    (call.op = "finfo" /\ Returned) =>
        LET d == DtypeOf(call.type)
            r == ComponentDType(d)
        IN  /\ d \in ComplexFloatingDTypes =>
                /\ ret = finfo(ArgDtype(r))
                /\ ret.status = "ok"
                /\ ret.value.dtype = r
                /\ r \in RealFloatingDTypes
                /\ ret.value.bits = BitWidth(r)
            /\ d \in {"bool"} \cup SignedDTypes \cup UnsignedDTypes =>
                ret.status = "invalid-argument"

C9_Witness ==
    /\ call.op = "finfo" /\ call.type = ArgDtype("complex128")
    /\ ret.status = "ok" /\ ret.value.dtype = "float64"

\* C10: every call of every operation, succeeding or failing, leaves the
\* registry, the kind tables, the promotion graphs and the limits records
\* unchanged, and leaves every existing array, the input of astype
\* included, unchanged.
C10_ReadOnly ==
    [][/\ registry' = registry
       /\ kindTable' = kindTable
       /\ graphs' = graphs
       /\ limits' = limits
       /\ \A i \in DOMAIN heap : i \in DOMAIN heap' /\ heap'[i] = heap[i]]_vars

C10_Witness ==
    /\ call.op = "astype" /\ ret.status = "ok"
    /\ ret.value # call.x /\ Len(heap) = MaxArrays
    /\ heap[call.x].dtype # call.dtype

====
